---- MODULE Spec2Model ----
(***************************************************************************)
(* A model of the chart data model of GBenchCMake: the column registry     *)
(* (PlotDescription), the row table (DataTable) and the domain-indexed     *)
(* table (Plot) of src/DrawGraphs/plot.py, next to the older draft of the  *)
(* same classes in src/main.py.                                            *)
(*                                                                         *)
(* A Python dict is modelled as a function whose domain is its key set, an *)
(* OrderedDict (and the insertion-ordered dict __xAxisIndex) as a sequence *)
(* of entries in insertion order, a list as a sequence.  Row ids are       *)
(* zero-based as in the code: row id i is rows[i + 1].                     *)
(*                                                                         *)
(* The tables store the dict a caller passes, not a copy, and addValue     *)
(* updates a stored dict in place: rowObject tells which positions of rows *)
(* hold one and the same dict object, and a caller may pass a dict of its  *)
(* own making or one the table already holds.                              *)
(*                                                                         *)
(* Errors are recorded in err by kind:                                     *)
(*   "MissingDomainValue"  PlotRowException("Row is missing domain value.")*)
(*   "UnknownColumn"       PlotRowException("Adding row with unknown       *)
(*                         columns ..." / "Adding value to an unknown      *)
(*                         column ...")                                    *)
(*   "RowIndexOutOfRange"  PlotRowException("Trying to access row with     *)
(*                         invalid id ...")                                *)
(*   "MissingDomainColumn" main.py's PlotDescriptionError                  *)
(*   "NameError", "AttributeError", "KeyError", "TypeError"  the Python    *)
(*                         built-in error the interpreter raises at that   *)
(*                         line                                            *)
(*                                                                         *)
(* The serializers return strings, and the model builds the same strings:  *)
(* a Python value is a record tagged with its Python type, and the         *)
(* formatting (str, "%d", json.dumps, join) is written out.                *)
(*                                                                         *)
(* Four specifications share the actions: Spec (tables that hold rows),    *)
(* SpecRegistry (the registry alone), SpecSerialize (tables that are       *)
(* filled and serialized) and SpecColumn (makePlotColumnDesc alone).       *)
(*                                                                         *)
(* The benchmark runner of src/RunTests/run_tests.py is a second machine   *)
(* with variables of its own and the specification SpecRunner.  A run is   *)
(* the script's main(), which opens the output file and then names a       *)
(* variable it never binds, or a call of iterateMainList by a module that  *)
(* imports run_tests and binds the globals args and file itself.  The      *)
(* three nested loops are cut into the steps between two writes to the     *)
(* output file, and the file is the sequence of what was written: "[",     *)
(* "]", "," and the output of a benchmark process.  Whether the command    *)
(* string starts a child process depends on the platform.                  *)
(***************************************************************************)
EXTENDS Integers, Sequences, FiniteSets, TLC

\* ------------------------------------------------------------- bounds ----
MaxRows == 2        \* rows a table may hold
MaxList == 3        \* length of the columnList given to a constructor
MaxTargets == 2     \* lines of the target list file
MaxDescs == 2       \* descriptions in the file of one target
MaxBenches == 2     \* benchmarks of one description that pass the filters

\* ------------------------------------------------------------- inputs ----
\* column ids as main.py's gatherPlotData uses them
Keys == {"date", "cpu_time", "real_time"}
DomainIds == {"date", "cpu_time"}
Labels == {"", "L"}
Values == {1, 2}
Drafts == {"DrawGraphs", "main"}

NoError == "none"
None == -1

\* the default None of label and of role: the argument was omitted
Omitted == "<omitted>"
\* Python's truth value of a str or None
Truthy(x) == x \notin {Omitted, ""}

allowedTypes == {"string", "date", "datetime", "number", "boolean", "timeofday"}

\* makePlotColumnDesc: "raise PlotColumnException(...)" calls a function
\* (PlotColumnException is a def, not a class) that returns None, and raising
\* None ends in TypeError
makePlotColumnDescErr(id, label, type, role) ==
  IF type \notin allowedTypes THEN "TypeError" ELSE NoError

makePlotColumnDesc(id, label, type, role) ==
  IF Truthy(role)
  THEN [id |-> id, label |-> IF Truthy(label) THEN label ELSE id,
        type |-> type, role |-> role]
  ELSE [id |-> id, label |-> IF Truthy(label) THEN label ELSE id,
        type |-> type]

\* PlotColumnDescription(id, label, type, role) of main.py, as its __dict__.
\* The default of label is written "label=id" (l.11), and id there is Python's
\* built-in function, not the parameter: with label omitted the attribute
\* holds that function.  A label that is given is kept as it is, '' included.
BuiltinId == "<built-in function id>"
PlotColumnDescription(id, label, type, role) ==
  IF Truthy(role)
  THEN [id |-> id, label |-> IF label = Omitted THEN BuiltinId ELSE label,
        type |-> type, role |-> role]
  ELSE [id |-> id, label |-> IF label = Omitted THEN BuiltinId ELSE label,
        type |-> type]

\* the descriptors given to plot.py's registry: makePlotColumnDesc(id, label)
ColDesc(id, label) == makePlotColumnDesc(id, label, "string", Omitted)
ColDescs == {ColDesc(id, l) : id \in Keys, l \in Labels}

ColumnLists == UNION {[1..n -> ColDescs] : n \in 0..MaxList}

\* the descriptors given to main.py's registry: PlotColumnDescription(id, label)
MainColDesc(id, label) == PlotColumnDescription(id, label, "string", Omitted)
MainColDescs == {MainColDesc(id, l) : id \in Keys, l \in Labels}

MainColumnLists == UNION {[1..n -> MainColDescs] : n \in 0..MaxList}

\* a descriptor is an object of the draft in use
DraftColDescs(d) == IF d = "main" THEN MainColDescs ELSE ColDescs

\* the registry constructions and column additions tried on a table that
\* holds rows: "date" is the domain column, "cpu_time" is registered from the
\* start or missing, "real_time" is unknown until addColumn registers it
TableDomainIds == {"date"}
TableColumnLists == {<<ColDesc("date", ""), ColDesc("cpu_time", "")>>,
                     <<ColDesc("cpu_time", "")>>}
TableColDescs == {ColDesc("real_time", "")}
MainTableColumnLists == {<<MainColDesc("date", ""), MainColDesc("cpu_time", "")>>,
                         <<MainColDesc("cpu_time", "")>>}
MainTableColDescs == {MainColDesc("real_time", "")}
DraftTableColDescs(d) == IF d = "main" THEN MainTableColDescs ELSE TableColDescs

\* rows and partial value sets: any subset of the keys, a domain value of 1 or
\* 2 under "date" and the sample 1 under the measured columns
EmptyRow == [k \in {} |-> 0]
RowInputs ==
  UNION {{r \in [S -> Values] : \A k \in S \ TableDomainIds : r[k] = 1} :
         S \in SUBSET Keys}
RowIds == (0 - 1)..MaxRows

\* the values given to addValue and to set on a Plot: when they carry the
\* domain key it is with the value 1, which agrees with the domain value of
\* the call for 1 and differs from it for 2
PartialInputs == {v \in RowInputs : "date" \in DOMAIN v => v["date"] = 1}

\* ------------------------------------------------------------- helpers ---
\* the keys of an ordered dict
ColumnIds(cols) == {cols[i].id : i \in DOMAIN cols}

\* mutant: setting an existing key moves it to the end
Mut_OrderedDictSet(cols, col) ==
  Append(SelectSeq(cols, LAMBDA c : c.id # col.id), col)

\* self.columns[column['id']]=column on an OrderedDict: a new key goes to the
\* end, an existing key keeps its position and takes the new content
OrderedDictSet(cols, col) ==
  IF col.id \in ColumnIds(cols)
  THEN [i \in DOMAIN cols |-> IF cols[i].id = col.id THEN col ELSE cols[i]]
  ELSE Append(cols, col)

RECURSIVE OrderedDictFrom(_)
OrderedDictFrom(columnList) ==
  IF columnList = <<>> THEN <<>>
  ELSE OrderedDictSet(OrderedDictFrom(SubSeq(columnList, 1, Len(columnList) - 1)),
                      columnList[Len(columnList)])

\* dict.update(values) / {**row, **values}
Merge(row, values) ==
  [k \in (DOMAIN row) \cup (DOMAIN values) |->
     IF k \in DOMAIN values THEN values[k] ELSE row[k]]

\* self.__xAxisIndex.get(domainValue, -1)
IndexKeys(index) == {index[i].key : i \in DOMAIN index}
IndexGet(index, d) ==
  IF d \in IndexKeys(index)
  THEN (CHOOSE e \in {index[i] : i \in DOMAIN index} : e.key = d).idx
  ELSE 0 - 1

\* mutant: the index keeps its keys sorted instead of in insertion order
Mut_IndexSet(index, d, rowId) ==
  SelectSeq(index, LAMBDA e : e.key < d)
    \o <<[key |-> d, idx |-> rowId]>>
    \o SelectSeq(index, LAMBDA e : e.key > d)

\* self.__xAxisIndex[domainValue]=rowId
IndexSet(index, d, rowId) ==
  IF d \in IndexKeys(index)
  THEN [i \in DOMAIN index |-> IF index[i].key = d THEN [key |-> d, idx |-> rowId] ELSE index[i]]
  ELSE Append(index, [key |-> d, idx |-> rowId])

\* ----------------------------------------------- pure parts of the code ---
\* PlotDescription.__init__ of plot.py: the OrderedDict is built first, the
\* domain check follows; the raise names PlotDescriptionError, which plot.py
\* never defines, so the interpreter raises NameError there
PlotDescriptionColumns(columnList) == OrderedDictFrom(columnList)

PlotDescriptionInitErr(domId, columnList) ==
  IF domId \notin ColumnIds(PlotDescriptionColumns(columnList))
  THEN "NameError"
  ELSE NoError

\* PlotDescription.__init__ of main.py: the loop over columnList
RECURSIVE MainHasDomain(_, _)
MainHasDomain(domId, columnList) ==
  IF columnList = <<>> THEN FALSE
  ELSE \/ Head(columnList).id = domId
       \/ MainHasDomain(domId, Tail(columnList))

RECURSIVE MainColumns(_, _)
MainColumns(cols, columnList) ==
  IF columnList = <<>> THEN cols
  ELSE MainColumns(OrderedDictSet(cols, Head(columnList)), Tail(columnList))

MainPlotDescriptionInitErr(domId, columnList) ==
  IF ~MainHasDomain(domId, columnList)
  THEN "MissingDomainColumn"
  ELSE NoError

\* PlotDescription.containsColumn
containsColumn(cols, column) == column.id \in ColumnIds(cols)

\* mutant: the assignment replaces the dict instead of setting one key
Mut_addColumn(cols, column) == <<column>>

\* PlotDescription.addColumn (both drafts)
addColumn(cols, column) == OrderedDictSet(cols, column)

\* mutant: the containsColumn guard is left out
Mut_DataTableAddColumnCols(cols, colDesc) == addColumn(cols, colDesc)

\* DataTable.addColumn
DataTableAddColumnCols(cols, colDesc) ==
  IF containsColumn(cols, colDesc) = FALSE
  THEN addColumn(cols, colDesc)
  ELSE cols

\* mutant: the upper bound is off by one
Mut_RowIdInvalid(rws, rowId) == rowId < 0 \/ rowId > Len(rws)

\* Python stores a reference to the dict the caller passes, so one dict object
\* can sit at several row positions.  objs[i] names the object at position i
\* by the least position that holds it; positions with the same name hold the
\* same object and change together when the object is updated in place.
NewObject == 0

\* the objects a caller can pass whose content is dict: a dict of its own
\* making, or a dict object the table already holds with that content
Objects(rws, objs, dict) ==
  {NewObject} \cup {objs[j] : j \in {k \in DOMAIN rws : rws[k] = dict}}

\* a call that is rejected stores nothing, so which object it was given does
\* not matter: it is taken to be a new one
PassedObjects(rws, objs, dict, e) ==
  IF e = NoError THEN Objects(rws, objs, dict) ELSE {NewObject}

SameObject(objs) ==
  [i \in DOMAIN objs |->
     CHOOSE j \in DOMAIN objs :
       objs[j] = objs[i] /\ \A k \in DOMAIN objs : objs[k] = objs[i] => j <= k]

\* self.__rows.append(rowData), plot.py l.184 and main.py l.72
AppendObject(objs, o) ==
  Append(objs, IF o = NewObject THEN Len(objs) + 1 ELSE o)

\* self.__rows[rowId]=values, plot.py l.127
StoreObject(objs, rowId, o) ==
  SameObject([objs EXCEPT ![rowId + 1] = IF o = NewObject THEN Len(objs) + 1 ELSE o])

\* DataTable.__getitem__ / the range check shared with __setitem__
RowIdInvalid(rws, rowId) == rowId < 0 \/ rowId >= Len(rws)

DataTableGetItemErr(rws, rowId) ==
  IF RowIdInvalid(rws, rowId) THEN "RowIndexOutOfRange" ELSE NoError

\* mutant: the domain check is left out
Mut_DataTableSetItemErr(domId, rws, rowId, values) ==
  IF RowIdInvalid(rws, rowId) THEN "RowIndexOutOfRange" ELSE NoError

\* DataTable.__setitem__: the domain check comes before the range check
DataTableSetItemErr(domId, rws, rowId, values) ==
  IF domId \notin DOMAIN values THEN "MissingDomainValue"
  ELSE IF RowIdInvalid(rws, rowId) THEN "RowIndexOutOfRange"
  ELSE NoError

DataTableSetItemRows(domId, rws, rowId, values) ==
  IF DataTableSetItemErr(domId, rws, rowId, values) = NoError
  THEN [rws EXCEPT ![rowId + 1] = values]
  ELSE rws

DataTableSetItemObjects(domId, rws, objs, rowId, values, o) ==
  IF DataTableSetItemErr(domId, rws, rowId, values) = NoError
  THEN StoreObject(objs, rowId, o)
  ELSE objs

\* mutant: the unknown-column check is left out
Mut_DataTableAddRowErr(domId, cols, rowData) ==
  IF domId \notin DOMAIN rowData THEN "MissingDomainValue" ELSE NoError

\* DataTable.addRow
DataTableAddRowErr(domId, cols, rowData) ==
  IF domId \notin DOMAIN rowData THEN "MissingDomainValue"
  ELSE IF (DOMAIN rowData) \ ColumnIds(cols) # {} THEN "UnknownColumn"
  ELSE NoError

DataTableAddRowRows(domId, cols, rws, rowData) ==
  IF DataTableAddRowErr(domId, cols, rowData) = NoError
  THEN Append(rws, rowData)
  ELSE rws

DataTableAddRowObjects(domId, cols, objs, rowData, o) ==
  IF DataTableAddRowErr(domId, cols, rowData) = NoError
  THEN AppendObject(objs, o)
  ELSE objs

\* mutant: the index is taken after the append
Mut_DataTableAddRowRet(domId, cols, rws, rowData) ==
  IF DataTableAddRowErr(domId, cols, rowData) = NoError
  THEN Len(rws) + 1
  ELSE None

DataTableAddRowRet(domId, cols, rws, rowData) ==
  IF DataTableAddRowErr(domId, cols, rowData) = NoError
  THEN Len(rws)
  ELSE None

\* Plot.addRow of main.py: the first raise reads self.domainId, an attribute
\* main.py's Plot does not have, so the interpreter raises AttributeError
MainAddRowErr(domId, cols, rowData) ==
  IF domId \notin DOMAIN rowData THEN "AttributeError"
  ELSE IF \E id \in DOMAIN rowData : id \notin ColumnIds(cols) THEN "UnknownColumn"
  ELSE NoError

MainAddRowRows(domId, cols, rws, rowData) ==
  IF MainAddRowErr(domId, cols, rowData) = NoError
  THEN Append(rws, rowData)
  ELSE rws

MainAddRowObjects(domId, cols, objs, rowData, o) ==
  IF MainAddRowErr(domId, cols, rowData) = NoError
  THEN AppendObject(objs, o)
  ELSE objs

\* mutant: the loop over the keys of values is left out
Mut_PlotAddValueErr(domId, cols, rws, index, d, values) ==
  IF IndexGet(index, d) = 0 - 1
  THEN DataTableAddRowErr(domId, cols, Merge(values, [k \in {domId} |-> d]))
  ELSE DataTableGetItemErr(rws, IndexGet(index, d))

\* Plot.addValue
PlotAddValueErr(domId, cols, rws, index, d, values) ==
  IF \E col \in DOMAIN values : col \notin ColumnIds(cols) THEN "UnknownColumn"
  ELSE IF IndexGet(index, d) = 0 - 1
       THEN DataTableAddRowErr(domId, cols, Merge(values, [k \in {domId} |-> d]))
       ELSE DataTableGetItemErr(rws, IndexGet(index, d))

\* mutant: an indexed row is replaced by the new values instead of updated
Mut_PlotAddValueRows(domId, cols, rws, objs, index, d, values) ==
  IF PlotAddValueErr(domId, cols, rws, index, d, values) # NoError THEN rws
  ELSE IF IndexGet(index, d) = 0 - 1
       THEN DataTableAddRowRows(domId, cols, rws, Merge(values, [k \in {domId} |-> d]))
       ELSE [rws EXCEPT ![IndexGet(index, d) + 1] = Merge(values, [k \in {domId} |-> d])]

\* an indexed row is updated in place (l.233): every position that holds the
\* same dict object shows the update; a new domain value gets a dict of
\* addValue's own making
PlotAddValueRows(domId, cols, rws, objs, index, d, values) ==
  IF PlotAddValueErr(domId, cols, rws, index, d, values) # NoError THEN rws
  ELSE IF IndexGet(index, d) = 0 - 1
       THEN DataTableAddRowRows(domId, cols, rws, Merge(values, [k \in {domId} |-> d]))
       ELSE [i \in DOMAIN rws |->
               IF objs[i] = objs[IndexGet(index, d) + 1]
               THEN Merge(rws[i], values)
               ELSE rws[i]]

PlotAddValueObjects(domId, cols, rws, objs, index, d, values) ==
  IF PlotAddValueErr(domId, cols, rws, index, d, values) # NoError THEN objs
  ELSE IF IndexGet(index, d) = 0 - 1
       THEN DataTableAddRowObjects(domId, cols, objs,
              Merge(values, [k \in {domId} |-> d]), NewObject)
       ELSE objs

PlotAddValueIndex(domId, cols, rws, index, d, values) ==
  IF PlotAddValueErr(domId, cols, rws, index, d, values) # NoError THEN index
  ELSE IF IndexGet(index, d) = 0 - 1
       THEN IndexSet(index, d,
              DataTableAddRowRet(domId, cols, rws, Merge(values, [k \in {domId} |-> d])))
       ELSE index

\* Plot.__setitem__
PlotSetItemErr(domId, cols, rws, index, d, values) ==
  IF IndexGet(index, d) = 0 - 1
  THEN DataTableAddRowErr(domId, cols, Merge(values, [k \in {domId} |-> d]))
  ELSE DataTableSetItemErr(domId, rws, IndexGet(index, d), values)

\* mutant: an indexed row is updated, as addValue does, instead of replaced
Mut_PlotSetItemRows(domId, cols, rws, index, d, values) ==
  IF PlotSetItemErr(domId, cols, rws, index, d, values) # NoError THEN rws
  ELSE IF IndexGet(index, d) = 0 - 1
       THEN DataTableAddRowRows(domId, cols, rws, Merge(values, [k \in {domId} |-> d]))
       ELSE [rws EXCEPT ![IndexGet(index, d) + 1] = Merge(@, values)]

PlotSetItemRows(domId, cols, rws, index, d, values) ==
  IF PlotSetItemErr(domId, cols, rws, index, d, values) # NoError THEN rws
  ELSE IF IndexGet(index, d) = 0 - 1
       THEN DataTableAddRowRows(domId, cols, rws, Merge(values, [k \in {domId} |-> d]))
       ELSE DataTableSetItemRows(domId, rws, IndexGet(index, d), values)

\* a new domain value gets a dict of __setitem__'s own making; an indexed
\* position gets the caller's dict itself
PlotSetItemObjects(domId, cols, rws, objs, index, d, values, o) ==
  IF PlotSetItemErr(domId, cols, rws, index, d, values) # NoError THEN objs
  ELSE IF IndexGet(index, d) = 0 - 1
       THEN DataTableAddRowObjects(domId, cols, objs,
              Merge(values, [k \in {domId} |-> d]), NewObject)
       ELSE DataTableSetItemObjects(domId, rws, objs, IndexGet(index, d), values, o)

PlotSetItemIndex(domId, cols, rws, index, d, values) ==
  IF PlotSetItemErr(domId, cols, rws, index, d, values) # NoError THEN index
  ELSE IF IndexGet(index, d) = 0 - 1
       THEN IndexSet(index, d,
              DataTableAddRowRet(domId, cols, rws, Merge(values, [k \in {domId} |-> d])))
       ELSE index

\* Plot.__getitem__: self.__xAxisIndex[domainValue] raises KeyError
PlotGetItemErr(rws, index, d) ==
  IF d \notin IndexKeys(index) THEN "KeyError"
  ELSE DataTableGetItemErr(rws, IndexGet(index, d))

\* Plot.__iter__
PlotIter(index) == [i \in DOMAIN index |-> index[i].key]

\* ------------------------------------------------- column descriptors ---
\* the arguments tried on makePlotColumnDesc
MakeIds == {"x", "date"}
MakeLabels == {Omitted, "", "L"}
MakeTypes == allowedTypes \cup {"currency", "String", ""}
MakeRoles == {Omitted, "", "tooltip"}

\* ------------------------------------------------------ serialization ---
\* Python values as the serializers tell them apart: t is the Python type
DateTime(y, mo, d, h, mi, s) ==
  [t |-> "datetime", year |-> y, month |-> mo, day |-> d,
   hour |-> h, minute |-> mi, second |-> s]
Date(y, mo, d) == [t |-> "date", year |-> y, month |-> mo, day |-> d]
IntValue(v) == [t |-> "int", v |-> v]
StrValue(v) == [t |-> "str", v |-> v]
BoolValue(v) == [t |-> "bool", v |-> v]
\* a dict in insertion order: a sequence of [key, value]
DictValue(items) == [t |-> "dict", items |-> items]
PyNone == [t |-> "NoneType"]

Pad2(n) == IF n < 10 THEN "0" \o ToString(n) ELSE ToString(n)

\* str(value); a year of four digits
PyStr(value) ==
  CASE value.t = "int" -> ToString(value.v)
    [] value.t = "str" -> value.v
    [] value.t = "NoneType" -> "None"
    [] value.t = "date" ->
         ToString(value.year) \o "-" \o Pad2(value.month) \o "-" \o Pad2(value.day)
    [] value.t = "datetime" ->
         ToString(value.year) \o "-" \o Pad2(value.month) \o "-" \o Pad2(value.day)
           \o " " \o Pad2(value.hour) \o ":" \o Pad2(value.minute)
           \o ":" \o Pad2(value.second)

\* sep.join(strs)
RECURSIVE Join(_, _)
Join(sep, strs) ==
  IF strs = <<>> THEN ""
  ELSE IF Len(strs) = 1 THEN strs[1]
  ELSE strs[1] \o sep \o Join(sep, Tail(strs))

\* the first error of a sequence of outcomes
FirstError(errs) ==
  IF \A i \in DOMAIN errs : errs[i] = NoError THEN NoError
  ELSE errs[CHOOSE i \in DOMAIN errs :
              /\ errs[i] # NoError
              /\ \A j \in DOMAIN errs : errs[j] # NoError => i <= j]

\* json.dumps of a str without a character that JSON escapes
JsonString(str) == "\"" \o str \o "\""

\* json.dumps of a column descriptor: the keys in insertion order
JsonDumpsDesc(colDesc) ==
  "{" \o "\"id\": " \o JsonString(colDesc.id)
      \o ", \"label\": " \o JsonString(colDesc.label)
      \o ", \"type\": " \o JsonString(colDesc.type)
      \o (IF "role" \in DOMAIN colDesc
          THEN ", \"role\": " \o JsonString(colDesc.role) ELSE "")
      \o "}"

\* json.dumps(cols)
JsonDumpsCols(cols) ==
  "[" \o Join(", ", [i \in DOMAIN cols |-> JsonDumpsDesc(cols[i])]) \o "]"

\* json.dumps of a str, an int, a bool, None or a dict of these with str keys
RECURSIVE JsonDumps(_)
JsonDumps(value) ==
  CASE value.t = "str" -> JsonString(value.v)
    [] value.t = "int" -> ToString(value.v)
    [] value.t = "bool" -> IF value.v THEN "true" ELSE "false"
    [] value.t = "NoneType" -> "null"
    [] value.t = "dict" ->
         "{" \o Join(", ", [i \in DOMAIN value.items |->
                              JsonString(value.items[i].key) \o ": "
                                \o JsonDumps(value.items[i].value)])
             \o "}"

\* DataTable.optionsJSON (both drafts): json.dumps(self._options)
optionsJSON(opts) == JsonDumps(DictValue(opts))

\* makeOptions(title) of main.py
makeOptions(title) ==
  <<[key |-> "title", value |-> StrValue(title)],
    [key |-> "legend",
     value |-> DictValue(<<[key |-> "position", value |-> StrValue("top")]>>)],
    [key |-> "curveType", value |-> StrValue("function")],
    [key |-> "hAxis",
     value |-> DictValue(
       <<[key |-> "format", value |-> StrValue("yyyy-M-dd")],
         [key |-> "gridlines",
          value |-> DictValue(<<[key |-> "count", value |-> IntValue(0)]>>)],
         [key |-> "slantedText", value |-> BoolValue(TRUE)],
         [key |-> "slantedTextAngle", value |-> IntValue(0 - 80)]>>)]>>

\* self.__description.columns[colId]
ColumnOf(cols, colId) ==
  CHOOSE c \in {cols[i] : i \in DOMAIN cols} : c.id = colId

\* what a call that raises returns: nothing
NoOut == ""

\* DataTable._toJsonStrValue: the column is looked up first, so an id the
\* registry lacks ends in KeyError also for None; a value without the
\* attributes its branch reads ends in AttributeError
toJsonStrValueErr(cols, colId, value) ==
  IF colId \notin ColumnIds(cols) THEN "KeyError"
  ELSE IF value.t = "NoneType" THEN NoError
  ELSE IF ColumnOf(cols, colId).type = "datetime" /\ value.t # "datetime"
       THEN "AttributeError"
  ELSE IF ColumnOf(cols, colId).type = "date" /\ value.t \notin {"date", "datetime"}
       THEN "AttributeError"
  ELSE NoError

toJsonStrValue(cols, colId, value) ==
  IF toJsonStrValueErr(cols, colId, value) # NoError THEN NoOut
  ELSE IF value.t = "NoneType" THEN "null"
  ELSE IF ColumnOf(cols, colId).type = "datetime"
       THEN "\"Date(" \o ToString(value.year)
              \o ", " \o ToString(value.month - 1)
              \o ", " \o ToString(value.day)
              \o ", " \o ToString(value.hour)
              \o ", " \o ToString(value.minute)
              \o ", " \o ToString(value.second) \o ")\""
  ELSE IF ColumnOf(cols, colId).type = "date"
       THEN "\"Date(" \o ToString(value.year)
              \o ", " \o ToString(value.month - 1)
              \o ", " \o ToString(value.day) \o ")\""
  ELSE IF ColumnOf(cols, colId).type = "string"
       THEN "\"" \o PyStr(value) \o "\""
  ELSE PyStr(value)

\* createRow of DataTable.toGoogleChartArrayStr: row[col] raises KeyError for
\* a column the row has no key for
createRowErr(cols, row) ==
  FirstError([i \in DOMAIN cols |->
                IF cols[i].id \notin DOMAIN row THEN "KeyError"
                ELSE toJsonStrValueErr(cols, cols[i].id, row[cols[i].id])])

createRow(cols, row) ==
  "[" \o Join(",", [i \in DOMAIN cols |->
                      toJsonStrValue(cols, cols[i].id, row[cols[i].id])])
      \o "]"

\* DataTable.toGoogleChartArrayStr
toGoogleChartArrayStrErr(cols, rws) ==
  FirstError([i \in DOMAIN rws |-> createRowErr(cols, rws[i])])

toGoogleChartArrayStr(cols, rws) ==
  "'[" \o JsonDumpsCols(cols) \o ", "
       \o Join(",", [i \in DOMAIN rws |-> createRow(cols, rws[i])]) \o "]'"

\* Plot.__toJsonStrValue of main.py: the month goes out as it is, and every
\* type but datetime as str(value)
MainToJsonStrValueErr(type, value) ==
  IF type = "datetime" /\ value.t # "datetime" THEN "AttributeError" ELSE NoError

MainToJsonStrValue(type, value) ==
  IF type = "datetime"
  THEN "\"Date(" \o ToString(value.year)
         \o ", " \o ToString(value.month)
         \o ", " \o ToString(value.day)
         \o ", " \o ToString(value.hour)
         \o ", " \o ToString(value.minute)
         \o ", " \o ToString(value.second) \o ")\""
  ELSE PyStr(value)

\* Plot.__getRowDescStr of main.py: a column the row has no key for adds ","
MainGetRowDescStrErr(row, cols) ==
  FirstError([i \in DOMAIN cols |->
                IF cols[i].id \in DOMAIN row
                THEN MainToJsonStrValueErr(cols[i].type, row[cols[i].id])
                ELSE NoError])

MainGetRowDescStr(row, cols) ==
  "[" \o Join("", [i \in DOMAIN cols |->
                     (IF cols[i].id \in DOMAIN row
                      THEN MainToJsonStrValue(cols[i].type, row[cols[i].id])
                      ELSE ",")
                     \o (IF i < Len(cols) THEN "," ELSE "")])
      \o "]"

\* Plot.__getRowDescriptionListStr of main.py
MainGetRowDescriptionListStr(cols, rws) ==
  Join(",", [i \in DOMAIN rws |-> MainGetRowDescStr(rws[i], cols)])

\* Plot.toGoogleChartArrayStr of main.py: the rows are written first, then
\* json.dumps(cols), which raises TypeError for a label that is the built-in
\* function
MainToGoogleChartArrayStrErr(cols, rws) ==
  FirstError(Append([i \in DOMAIN rws |-> MainGetRowDescStrErr(rws[i], cols)],
                    IF \E j \in DOMAIN cols : cols[j].label = BuiltinId
                    THEN "TypeError" ELSE NoError))

MainToGoogleChartArrayStr(cols, rws) ==
  "'[" \o JsonDumpsCols(cols) \o ", "
       \o MainGetRowDescriptionListStr(cols, rws) \o "]'"

\* the registries, values, rows and options tried on the serializers: the
\* three columns main.py's gatherPlotData declares, the first two of them
\* alone, and a date column beside a string column (plot.py) or a number
\* column (main.py) with a role; for main.py also a column whose label is
\* omitted; every value is of its column's type or None
SerColumnLists ==
  {<<makePlotColumnDesc("date", "Date", "datetime", Omitted),
     makePlotColumnDesc("cpu_time", "CPU Time", "number", Omitted),
     makePlotColumnDesc("real_time", "Real Time", "number", Omitted)>>,
   <<makePlotColumnDesc("date", "Date", "datetime", Omitted),
     makePlotColumnDesc("cpu_time", "CPU Time", "number", Omitted)>>,
   <<makePlotColumnDesc("date", "Day", "date", Omitted),
     makePlotColumnDesc("cpu_time", Omitted, "string", "tooltip")>>}
descList ==
  <<PlotColumnDescription("date", "Date", "datetime", Omitted),
    PlotColumnDescription("cpu_time", "CPU Time", "number", Omitted),
    PlotColumnDescription("real_time", "Real Time", "number", Omitted)>>
MainSerColumnLists ==
  {descList,
   <<PlotColumnDescription("date", "Date", "datetime", Omitted),
     PlotColumnDescription("cpu_time", "CPU Time", "number", Omitted)>>,
   <<PlotColumnDescription("date", "Day", "date", Omitted),
     PlotColumnDescription("cpu_time", "Name", "number", "tooltip")>>,
   <<PlotColumnDescription("date", Omitted, "datetime", Omitted)>>}
SerValues(type) ==
  CASE type = "datetime" -> {DateTime(2021, 1, 2, 3, 4, 5)}
    [] type = "date" -> {Date(2021, 1, 2), Date(2021, 12, 31)}
    [] type = "number" -> {IntValue(42)}
    [] type = "string" -> {StrValue("a")}
SerPartialValues(domId, cols) ==
  UNION {{r \in [S -> UNION {SerValues(cols[i].type) : i \in DOMAIN cols}
                        \cup {PyNone}] :
            \A k \in S : r[k] \in SerValues(ColumnOf(cols, k).type) \cup {PyNone}} :
         S \in SUBSET (ColumnIds(cols) \ {domId})}
SerDomainValues(domId, cols) ==
  IF domId \in ColumnIds(cols) THEN SerValues(ColumnOf(cols, domId).type) ELSE {}
SerRowInputs(domId, cols) ==
  {Merge(r, [k \in {domId} |-> d]) :
     r \in SerPartialValues(domId, cols), d \in SerDomainValues(domId, cols)}
\* the options set on a table: none, or what gatherPlotData sets
OptionInputs == {<<>>, makeOptions("T")}

\* ------------------------------------------------------------- state -----
\* draft       which draft of the classes is in use (plot.py or main.py)
\* built       a PlotDescription has been constructed
\* domainId    PlotDescription.domainId
\* columns     PlotDescription.columns
\* cls         the class of the table bound to the description
\* rows        DataTable.__rows (main.py: Plot.rows)
\* rowObject   which dict object each position of rows holds (see Objects)
\* xAxisIndex  Plot.__xAxisIndex
\* op, args    the last call and its arguments (values: of a call that was
\*             or columnList: of a call that was carried out; a rejected
\*             call leaves the empty row or list there)
\* err, ret    the error it raised and the row id it returned
\* options     DataTable._options (main.py: Plot._options), a dict in
\*             insertion order
\* out         the descriptor or the string the last call returned
VARIABLES draft, built, domainId, columns, cls, rows, rowObject, xAxisIndex,
          options, op, args, err, ret, out

\* the benchmark runner of src/RunTests/run_tests.py:
\* runArgs             how the runner was started: the function entered,
\*                     whether the module global args is bound, whether an
\*                     output file is given, the binding of the module
\*                     global "file", args.format, args.filter, the platform
\* targetList          the file args.target_list names: for every target the
\*                     descriptions of its file, and for every description
\*                     the number of benchmarks the filters leave
\* pc                  the runner's position
\* file                main's local variable file
\* currentTarget, currentDescription, currentBench
\*                     the loop counters of the three functions
\* didWriteTest, hasTests
\*                     the flags of executeAllDescriptions and of its caller
\* written             the content of the output file, in the order it was
\*                     written
\* runErr              the error that ended the run
VARIABLES runArgs, targetList, pc, file, currentTarget, currentDescription,
          currentBench, didWriteTest, hasTests, written, runErr

chartVars == <<draft, built, domainId, columns, cls, rows, rowObject, xAxisIndex, options,
               op, args, err, ret, out>>

runVars == <<runArgs, targetList, pc, file, currentTarget, currentDescription,
             currentBench, didWriteTest, hasTests, written, runErr>>

vars == <<draft, built, domainId, columns, cls, rows, rowObject, xAxisIndex, options,
          op, args, err, ret, out,
          runArgs, targetList, pc, file, currentTarget, currentDescription,
          currentBench, didWriteTest, hasTests, written, runErr>>

NoCol == [id |-> "", label |-> ""]
NoMake == [id |-> "", label |-> "", type |-> "", role |-> ""]
NoArgs == [rowId |-> None, d |-> 0, values |-> EmptyRow, col |-> NoCol,
           columnList |-> <<>>, make |-> NoMake]

NoRunArgs == [entry |-> "none", args |-> "None", outPath |-> FALSE,
              globalFile |-> "unbound", format |-> "json", filter |-> FALSE,
              platform |-> "posix"]

\* no run of the benchmark runner has been started
RunnerIdle ==
  /\ runArgs = NoRunArgs
  /\ targetList = <<>>
  /\ pc = "idle"
  /\ file = "unbound"
  /\ currentTarget = 0
  /\ currentDescription = 0
  /\ currentBench = 0
  /\ didWriteTest = FALSE
  /\ hasTests = FALSE
  /\ written = <<>>
  /\ runErr = NoError

\* no table has been built
ChartInit ==
  /\ draft \in Drafts
  /\ built = FALSE
  /\ domainId = ""
  /\ columns = <<>>
  /\ cls = "none"
  /\ rows = <<>>
  /\ rowObject = <<>>
  /\ xAxisIndex = <<>>
  /\ op = "none"
  /\ args = NoArgs
  /\ err = NoError
  /\ ret = None
  /\ options = <<>>
  /\ out = NoOut

Init == ChartInit /\ RunnerIdle

\* ----------------------------------------------------------- registry ----
\* PlotDescription(domainId, columnList) of plot.py; a constructor that raises
\* yields no object
PlotDescriptionInit(domId, columnList) ==
  /\ draft = "DrawGraphs"
  /\ ~built
  /\ op' = "PlotDescription"
  /\ args' = IF PlotDescriptionInitErr(domId, columnList) = NoError
             THEN [NoArgs EXCEPT !.columnList = columnList] ELSE NoArgs
  /\ err' = PlotDescriptionInitErr(domId, columnList)
  /\ ret' = None
  /\ IF PlotDescriptionInitErr(domId, columnList) = NoError
     THEN /\ built' = TRUE
          /\ domainId' = domId
          /\ columns' = PlotDescriptionColumns(columnList)
     ELSE UNCHANGED <<built, domainId, columns>>
  /\ UNCHANGED <<draft, cls, rows, rowObject, xAxisIndex, options>>
  /\ out' = NoOut
  /\ UNCHANGED runVars

\* PlotDescription(domainId, columnList) of main.py
MainPlotDescriptionInit(domId, columnList) ==
  /\ draft = "main"
  /\ ~built
  /\ op' = "PlotDescription"
  /\ args' = IF MainPlotDescriptionInitErr(domId, columnList) = NoError
             THEN [NoArgs EXCEPT !.columnList = columnList] ELSE NoArgs
  /\ err' = MainPlotDescriptionInitErr(domId, columnList)
  /\ ret' = None
  /\ IF MainPlotDescriptionInitErr(domId, columnList) = NoError
     THEN /\ built' = TRUE
          /\ domainId' = domId
          /\ columns' = MainColumns(<<>>, columnList)
     ELSE UNCHANGED <<built, domainId, columns>>
  /\ UNCHANGED <<draft, cls, rows, rowObject, xAxisIndex, options>>
  /\ out' = NoOut
  /\ UNCHANGED runVars

\* description.addColumn(column), in either draft
PlotDescriptionAddColumn(column) ==
  /\ built
  /\ op' = "PlotDescription.addColumn"
  /\ args' = [NoArgs EXCEPT !.col = column]
  /\ err' = NoError
  /\ ret' = None
  /\ columns' = addColumn(columns, column)
  /\ UNCHANGED <<draft, built, domainId, cls, rows, rowObject, xAxisIndex, options>>
  /\ out' = NoOut
  /\ UNCHANGED runVars

\* ------------------------------------------------------------- tables ----
\* DataTable(description)
DataTableInit ==
  /\ draft = "DrawGraphs"
  /\ built
  /\ cls = "none"
  /\ cls' = "DataTable"
  /\ rows' = <<>>
  /\ rowObject' = <<>>
  /\ op' = "DataTable"
  /\ args' = NoArgs
  /\ err' = NoError
  /\ ret' = None
  /\ UNCHANGED <<draft, built, domainId, columns, xAxisIndex>>
  /\ options' = <<>>
  /\ out' = NoOut
  /\ UNCHANGED runVars

\* Plot(description) of plot.py
PlotInit ==
  /\ draft = "DrawGraphs"
  /\ built
  /\ cls = "none"
  /\ cls' = "Plot"
  /\ rows' = <<>>
  /\ rowObject' = <<>>
  /\ xAxisIndex' = <<>>
  /\ op' = "Plot"
  /\ args' = NoArgs
  /\ err' = NoError
  /\ ret' = None
  /\ UNCHANGED <<draft, built, domainId, columns>>
  /\ options' = <<>>
  /\ out' = NoOut
  /\ UNCHANGED runVars

\* Plot(description) of main.py
MainPlotInit ==
  /\ draft = "main"
  /\ built
  /\ cls = "none"
  /\ cls' = "Plot"
  /\ rows' = <<>>
  /\ rowObject' = <<>>
  /\ op' = "Plot"
  /\ args' = NoArgs
  /\ err' = NoError
  /\ ret' = None
  /\ UNCHANGED <<draft, built, domainId, columns, xAxisIndex>>
  /\ options' = <<>>
  /\ out' = NoOut
  /\ UNCHANGED runVars

IsTable == draft = "DrawGraphs" /\ cls \in {"DataTable", "Plot"}
IsPlot == draft = "DrawGraphs" /\ cls = "Plot"
IsMainPlot == draft = "main" /\ cls = "Plot"

\* table.addColumn(colDesc)
DataTableAddColumn(colDesc) ==
  /\ IsTable
  /\ op' = "DataTable.addColumn"
  /\ args' = [NoArgs EXCEPT !.col = colDesc]
  /\ err' = NoError
  /\ ret' = None
  /\ columns' = DataTableAddColumnCols(columns, colDesc)
  /\ UNCHANGED <<draft, built, domainId, cls, rows, rowObject, xAxisIndex, options>>
  /\ out' = NoOut
  /\ UNCHANGED runVars

\* table.addRow(rowData); a Plot inherits it unchanged
DataTableAddRow(rowData) ==
  /\ IsTable
  /\ Len(rows) < MaxRows
  /\ op' = "addRow"
  /\ args' = IF DataTableAddRowErr(domainId, columns, rowData) = NoError
             THEN [NoArgs EXCEPT !.values = rowData] ELSE NoArgs
  /\ err' = DataTableAddRowErr(domainId, columns, rowData)
  /\ ret' = DataTableAddRowRet(domainId, columns, rows, rowData)
  /\ rows' = DataTableAddRowRows(domainId, columns, rows, rowData)
  /\ \E o \in PassedObjects(rows, rowObject, rowData, err') :
       rowObject' = DataTableAddRowObjects(domainId, columns, rowObject, rowData, o)
  /\ UNCHANGED <<draft, built, domainId, columns, cls, xAxisIndex, options>>
  /\ out' = NoOut
  /\ UNCHANGED runVars

\* Plot.addRow(rowData) of main.py
MainAddRow(rowData) ==
  /\ IsMainPlot
  /\ Len(rows) < MaxRows
  /\ op' = "addRow"
  /\ args' = IF MainAddRowErr(domainId, columns, rowData) = NoError
             THEN [NoArgs EXCEPT !.values = rowData] ELSE NoArgs
  /\ err' = MainAddRowErr(domainId, columns, rowData)
  /\ ret' = None
  /\ rows' = MainAddRowRows(domainId, columns, rows, rowData)
  /\ \E o \in PassedObjects(rows, rowObject, rowData, err') :
       rowObject' = MainAddRowObjects(domainId, columns, rowObject, rowData, o)
  /\ UNCHANGED <<draft, built, domainId, columns, cls, xAxisIndex, options>>
  /\ out' = NoOut
  /\ UNCHANGED runVars

\* DataTable.__getitem__(rowId); the row returned is rows[rowId + 1]; on a
\* Plot, indexing goes to Plot.__getitem__
DataTableGetItem(rowId) ==
  /\ draft = "DrawGraphs" /\ cls = "DataTable"
  /\ op' = "getRow"
  /\ args' = [NoArgs EXCEPT !.rowId = rowId]
  /\ err' = DataTableGetItemErr(rows, rowId)
  /\ ret' = IF DataTableGetItemErr(rows, rowId) = NoError THEN rowId ELSE None
  /\ UNCHANGED <<draft, built, domainId, columns, cls, rows, rowObject, xAxisIndex, options>>
  /\ out' = NoOut
  /\ UNCHANGED runVars

\* DataTable.__setitem__(rowId, values); on a Plot it is reached through
\* Plot.__setitem__ only
DataTableSetItem(rowId, values) ==
  /\ draft = "DrawGraphs" /\ cls = "DataTable"
  /\ op' = "setRow"
  /\ args' = IF DataTableSetItemErr(domainId, rows, rowId, values) = NoError
             THEN [NoArgs EXCEPT !.rowId = rowId, !.values = values]
             ELSE [NoArgs EXCEPT !.rowId = rowId]
  /\ err' = DataTableSetItemErr(domainId, rows, rowId, values)
  /\ ret' = None
  /\ rows' = DataTableSetItemRows(domainId, rows, rowId, values)
  /\ \E o \in PassedObjects(rows, rowObject, values, err') :
       rowObject' = DataTableSetItemObjects(domainId, rows, rowObject, rowId, values, o)
  /\ UNCHANGED <<draft, built, domainId, columns, cls, xAxisIndex, options>>
  /\ out' = NoOut
  /\ UNCHANGED runVars

\* Plot.addValue(domainValue, values)
PlotAddValue(d, values) ==
  /\ IsPlot
  /\ IndexGet(xAxisIndex, d) = 0 - 1 => Len(rows) < MaxRows
  /\ op' = "addValue"
  /\ args' = IF PlotAddValueErr(domainId, columns, rows, xAxisIndex, d, values) = NoError
             THEN [NoArgs EXCEPT !.d = d, !.values = values]
             ELSE [NoArgs EXCEPT !.d = d]
  /\ err' = PlotAddValueErr(domainId, columns, rows, xAxisIndex, d, values)
  /\ ret' = None
  /\ rows' = PlotAddValueRows(domainId, columns, rows, rowObject, xAxisIndex, d, values)
  /\ rowObject' = PlotAddValueObjects(domainId, columns, rows, rowObject, xAxisIndex, d, values)
  /\ xAxisIndex' = PlotAddValueIndex(domainId, columns, rows, xAxisIndex, d, values)
  /\ UNCHANGED <<draft, built, domainId, columns, cls, options>>
  /\ out' = NoOut
  /\ UNCHANGED runVars

\* Plot.__setitem__(domainValue, values)
PlotSetItem(d, values) ==
  /\ IsPlot
  /\ IndexGet(xAxisIndex, d) = 0 - 1 => Len(rows) < MaxRows
  /\ op' = "set"
  /\ args' = IF PlotSetItemErr(domainId, columns, rows, xAxisIndex, d, values) = NoError
             THEN [NoArgs EXCEPT !.d = d, !.values = values]
             ELSE [NoArgs EXCEPT !.d = d]
  /\ err' = PlotSetItemErr(domainId, columns, rows, xAxisIndex, d, values)
  /\ ret' = None
  /\ rows' = PlotSetItemRows(domainId, columns, rows, xAxisIndex, d, values)
  /\ \E o \in PassedObjects(rows, rowObject, values, err') :
       rowObject' = PlotSetItemObjects(domainId, columns, rows, rowObject, xAxisIndex,
                                       d, values, o)
  /\ xAxisIndex' = PlotSetItemIndex(domainId, columns, rows, xAxisIndex, d, values)
  /\ UNCHANGED <<draft, built, domainId, columns, cls, options>>
  /\ out' = NoOut
  /\ UNCHANGED runVars

\* Plot.__getitem__(domainValue); the row returned is the indexed one
PlotGetItem(d) ==
  /\ IsPlot
  /\ op' = "get"
  /\ args' = [NoArgs EXCEPT !.d = d]
  /\ err' = PlotGetItemErr(rows, xAxisIndex, d)
  /\ ret' = IF PlotGetItemErr(rows, xAxisIndex, d) = NoError
            THEN IndexGet(xAxisIndex, d) ELSE None
  /\ UNCHANGED <<draft, built, domainId, columns, cls, rows, rowObject, xAxisIndex, options>>
  /\ out' = NoOut
  /\ UNCHANGED runVars

\* ------------------------------------------------------ serialization ---
\* table.options = o, in either draft
SetOptions(o) ==
  /\ cls # "none"
  /\ options' = o
  /\ op' = "options"
  /\ args' = NoArgs
  /\ err' = NoError
  /\ ret' = None
  /\ out' = NoOut
  /\ UNCHANGED <<draft, built, domainId, columns, cls, rows, rowObject, xAxisIndex>>
  /\ UNCHANGED runVars

\* table.optionsJSON(), in either draft
OptionsJSON ==
  /\ cls # "none"
  /\ op' = "optionsJSON"
  /\ args' = NoArgs
  /\ err' = NoError
  /\ ret' = None
  /\ out' = optionsJSON(options)
  /\ UNCHANGED <<draft, built, domainId, columns, cls, rows, rowObject, xAxisIndex, options>>
  /\ UNCHANGED runVars

\* mutant: the rows are handed out once and dropped
Mut_DataTableToGoogleChartArrayStr ==
  /\ IsTable
  /\ op' = "toGoogleChartArrayStr"
  /\ args' = NoArgs
  /\ err' = toGoogleChartArrayStrErr(columns, rows)
  /\ ret' = None
  /\ out' = IF toGoogleChartArrayStrErr(columns, rows) = NoError
            THEN toGoogleChartArrayStr(columns, rows)
            ELSE NoOut
  /\ rows' = <<>>
  /\ rowObject' = <<>>
  /\ UNCHANGED <<draft, built, domainId, columns, cls, xAxisIndex, options>>
  /\ UNCHANGED runVars

\* table.toGoogleChartArrayStr() of plot.py, on a DataTable or a Plot
DataTableToGoogleChartArrayStr ==
  /\ IsTable
  /\ op' = "toGoogleChartArrayStr"
  /\ args' = NoArgs
  /\ err' = toGoogleChartArrayStrErr(columns, rows)
  /\ ret' = None
  /\ out' = IF toGoogleChartArrayStrErr(columns, rows) = NoError
            THEN toGoogleChartArrayStr(columns, rows)
            ELSE NoOut
  /\ UNCHANGED <<draft, built, domainId, columns, cls, rows, rowObject, xAxisIndex, options>>
  /\ UNCHANGED runVars

\* plot.toGoogleChartArrayStr() of main.py
MainPlotToGoogleChartArrayStr ==
  /\ IsMainPlot
  /\ op' = "toGoogleChartArrayStr"
  /\ args' = NoArgs
  /\ err' = MainToGoogleChartArrayStrErr(columns, rows)
  /\ ret' = None
  /\ out' = IF MainToGoogleChartArrayStrErr(columns, rows) = NoError
            THEN MainToGoogleChartArrayStr(columns, rows)
            ELSE NoOut
  /\ UNCHANGED <<draft, built, domainId, columns, cls, rows, rowObject, xAxisIndex, options>>
  /\ UNCHANGED runVars

\* ------------------------------------------------- column descriptors ---
\* makePlotColumnDesc(id, label, type, role), a function of the module
MakePlotColumnDesc(id, label, type, role) ==
  /\ draft = "DrawGraphs"
  /\ op' = "makePlotColumnDesc"
  /\ args' = [NoArgs EXCEPT !.make = [id |-> id, label |-> label,
                                      type |-> type, role |-> role]]
  /\ err' = makePlotColumnDescErr(id, label, type, role)
  /\ ret' = None
  /\ out' = IF makePlotColumnDescErr(id, label, type, role) = NoError
            THEN makePlotColumnDesc(id, label, type, role)
            ELSE NoOut
  /\ UNCHANGED <<draft, built, domainId, columns, cls, rows, rowObject, xAxisIndex, options>>
  /\ UNCHANGED runVars

\* ---------------------------------------------------- benchmark runner ---
\* what one benchmark process writes to its stdout
BenchmarkOutput == "B"

\* the platforms the script runs on: they differ in what subprocess does with
\* a command that is one string
Platforms == {"posix", "windows"}

\* how the runner is started.  As the script it is main() with a command
\* line: --format (json is the default), with or without --out_path, with or
\* without --filter; the module global "file" is bound by no line of the
\* script.  A module that imports run_tests can call iterateMainList itself:
\* then args is None as at import or has been bound to parsed arguments, and
\* the module global "file" is unbound or has been bound to None or to a
\* file opened for writing, all by the caller.
RunArgsInputs ==
  {[entry |-> "main", args |-> "parsed", outPath |-> o, globalFile |-> "unbound",
    format |-> fmt, filter |-> flt, platform |-> p] :
     o \in BOOLEAN, fmt \in {"json", "console"}, flt \in BOOLEAN, p \in Platforms}
  \cup
  {[entry |-> "iterateMainList", args |-> a, outPath |-> (f = "open"),
    globalFile |-> f, format |-> fmt, filter |-> flt, platform |-> p] :
     a \in {"None", "parsed"}, f \in {"unbound", "None", "open"},
     fmt \in {"json", "console"}, flt \in BOOLEAN, p \in Platforms}

\* the target list files tried: a target is the list of its descriptions, a
\* description the number of benchmarks that applyGlobalFilter returns for
\* it; every target file exists and can be executed
TargetInputs == UNION {[1..n -> 0..MaxBenches] : n \in 0..MaxDescs}
TargetLists == UNION {[1..n -> TargetInputs] : n \in 0..MaxTargets}

\* what the output file holds before the run: the script finds nothing at
\* args.out_path or the array an earlier run has left there; a caller of
\* iterateMainList passes a file it has just opened for writing
OldContents(r) == IF r.entry = "main" THEN {<<>>, <<"[", "]">>} ELSE {<<>>}

\* "file and args.format == 'json'" on the module global, and the same test
\* on outputFile, which is that object as iterateMainList passes it down
FileAndJson == runArgs.globalFile = "open" /\ runArgs.format = "json"

\* subprocess.Popen(command, ...) and subprocess.run(command, ...) with the
\* command as one string "<target_file> --benchmark_...", without shell=True:
\* on POSIX the whole string is taken as the name of the program, no file has
\* that name and the call raises FileNotFoundError; on Windows the string is
\* the command line and the program starts
PopenErr == IF runArgs.platform = "posix" THEN "FileNotFoundError" ELSE NoError

\* applyGlobalFilter: its first statement after the command is Popen
applyGlobalFilterErr == PopenErr

\* runBenchmarkCommand: flush, then subprocess.run(command, stdout=outputFile)
runBenchmarkCommandErr == PopenErr

runBenchmarkCommandWritten(w) ==
  IF runBenchmarkCommandErr = NoError /\ runArgs.globalFile = "open"
  THEN Append(w, BenchmarkOutput)
  ELSE w

numTargets == Len(targetList)
numDescriptions == Len(targetList[currentTarget])
numBenches == targetList[currentTarget][currentDescription]

\* the runner is started: the script is run with a command line, or an
\* importing module calls iterateMainList
startRun(r, t, w) ==
  /\ pc = "idle"
  /\ runArgs' = r
  /\ targetList' = t
  /\ written' = w
  /\ pc' = r.entry
  /\ UNCHANGED <<file, currentTarget, currentDescription, currentBench,
                 didWriteTest, hasTests, runErr>>
  /\ UNCHANGED chartVars

\* main(): open(args.out_path, "w") empties the file and binds the local
\* variable file; the call iterateMainList(outputFile) then names a variable
\* that main never binds, so the argument raises NameError before
\* iterateMainList is entered, and nothing is written
main ==
  /\ pc = "main"
  /\ file' = IF runArgs.outPath THEN "open" ELSE "None"
  /\ written' = IF runArgs.outPath THEN <<>> ELSE written
  /\ runErr' = "NameError"
  /\ pc' = "done"
  /\ UNCHANGED <<runArgs, targetList, currentTarget, currentDescription,
                 currentBench, didWriteTest, hasTests>>
  /\ UNCHANGED chartVars

\* iterateMainList up to its loop: args.target_list is read first (args is
\* None where nobody has bound it); "file" is a global name of the module,
\* first read after the target list and the loop counter are set
iterateMainList ==
  /\ pc = "iterateMainList"
  /\ IF runArgs.args = "None"
     THEN /\ runErr' = "AttributeError"
          /\ pc' = "done"
          /\ UNCHANGED <<currentTarget, written>>
     ELSE IF runArgs.globalFile = "unbound"
     THEN /\ runErr' = "NameError"
          /\ currentTarget' = 1
          /\ pc' = "done"
          /\ UNCHANGED written
     ELSE /\ runErr' = NoError
          /\ currentTarget' = 1
          /\ written' = IF FileAndJson THEN Append(written, "[") ELSE written
          /\ pc' = IF numTargets = 0 THEN "iterateMainListEnd"
                   ELSE "executeAllDescriptions"
  /\ UNCHANGED <<runArgs, targetList, file, currentDescription, currentBench,
                 didWriteTest, hasTests>>
  /\ UNCHANGED chartVars

\* executeAllDescriptions up to its loop
executeAllDescriptions ==
  /\ pc = "executeAllDescriptions"
  /\ didWriteTest' = FALSE
  /\ currentDescription' = 1
  /\ pc' = IF numDescriptions = 0 THEN "iterateMainListNext"
           ELSE "executeDescription"
  /\ UNCHANGED <<runArgs, targetList, file, currentTarget, currentBench, hasTests,
                 written, runErr>>
  /\ UNCHANGED chartVars

\* executeDescription up to its loop, or all of it without args.filter; an
\* exception of applyGlobalFilter or of runBenchmarkCommand is caught nowhere
\* and ends the run
executeDescription ==
  /\ pc = "executeDescription"
  /\ IF runArgs.filter
     THEN IF applyGlobalFilterErr # NoError
          THEN /\ runErr' = applyGlobalFilterErr
               /\ pc' = "done"
               /\ UNCHANGED <<currentBench, hasTests, written>>
          ELSE IF numBenches = 0
          THEN /\ hasTests' = FALSE
               /\ pc' = "executeAllDescriptionsNext"
               /\ UNCHANGED <<currentBench, written, runErr>>
          ELSE /\ currentBench' = 1
               /\ pc' = "runBenchmarkCommand"
               /\ UNCHANGED <<hasTests, written, runErr>>
     ELSE IF runBenchmarkCommandErr # NoError
          THEN /\ runErr' = runBenchmarkCommandErr
               /\ pc' = "done"
               /\ UNCHANGED <<currentBench, hasTests, written>>
          ELSE /\ written' = runBenchmarkCommandWritten(written)
               /\ hasTests' = TRUE
               /\ pc' = "executeAllDescriptionsNext"
               /\ UNCHANGED <<currentBench, runErr>>
  /\ UNCHANGED <<runArgs, targetList, file, currentTarget, currentDescription,
                 didWriteTest>>
  /\ UNCHANGED chartVars

\* one turn of executeDescription's loop; after the last one it returns True
\* (the loop is entered only where applyGlobalFilter's Popen started its
\* program, and there runBenchmarkCommand's starts too)
runBenchmarkCommand ==
  /\ pc = "runBenchmarkCommand"
  /\ written' = IF FileAndJson /\ currentBench < numBenches
                THEN Append(runBenchmarkCommandWritten(written), ",")
                ELSE runBenchmarkCommandWritten(written)
  /\ currentBench' = currentBench + 1
  /\ IF currentBench < numBenches
     THEN UNCHANGED <<hasTests, pc>>
     ELSE /\ hasTests' = TRUE
          /\ pc' = "executeAllDescriptionsNext"
  /\ UNCHANGED <<runArgs, targetList, file, currentTarget, currentDescription,
                 didWriteTest, runErr>>
  /\ UNCHANGED chartVars

\* the rest of a turn of executeAllDescriptions' loop; after the last one it
\* returns didWriteTest
executeAllDescriptionsNext ==
  /\ pc = "executeAllDescriptionsNext"
  /\ didWriteTest' = (hasTests \/ didWriteTest)
  /\ written' = IF FileAndJson /\ currentDescription < numDescriptions /\ hasTests
                THEN Append(written, ",")
                ELSE written
  /\ currentDescription' = currentDescription + 1
  /\ pc' = IF currentDescription < numDescriptions THEN "executeDescription"
           ELSE "iterateMainListNext"
  /\ UNCHANGED <<runArgs, targetList, file, currentTarget, currentBench, hasTests,
                 runErr>>
  /\ UNCHANGED chartVars

\* the rest of a turn of iterateMainList's loop: its hasTests is the
\* didWriteTest that executeAllDescriptions returned
iterateMainListNext ==
  /\ pc = "iterateMainListNext"
  /\ written' = IF FileAndJson /\ currentTarget < numTargets /\ didWriteTest
                THEN Append(written, ",")
                ELSE written
  /\ currentTarget' = currentTarget + 1
  /\ pc' = IF currentTarget < numTargets THEN "executeAllDescriptions"
           ELSE "iterateMainListEnd"
  /\ UNCHANGED <<runArgs, targetList, file, currentDescription, currentBench,
                 didWriteTest, hasTests, runErr>>
  /\ UNCHANGED chartVars

\* iterateMainList after its loop
iterateMainListEnd ==
  /\ pc = "iterateMainListEnd"
  /\ written' = IF FileAndJson THEN Append(written, "]") ELSE written
  /\ pc' = "done"
  /\ UNCHANGED <<runArgs, targetList, file, currentTarget, currentDescription,
                 currentBench, didWriteTest, hasTests, runErr>>
  /\ UNCHANGED chartVars

\* a table that holds rows, over the registries of TableColumnLists
Next ==
  \/ \E domId \in TableDomainIds, columnList \in TableColumnLists :
       PlotDescriptionInit(domId, columnList)
  \/ \E domId \in TableDomainIds, columnList \in MainTableColumnLists :
       MainPlotDescriptionInit(domId, columnList)
  \/ \E column \in DraftTableColDescs(draft) : PlotDescriptionAddColumn(column)
  \/ DataTableInit
  \/ PlotInit
  \/ MainPlotInit
  \/ \E colDesc \in TableColDescs : DataTableAddColumn(colDesc)
  \/ \E rowData \in RowInputs : DataTableAddRow(rowData)
  \/ \E rowData \in RowInputs : MainAddRow(rowData)
  \/ \E rowId \in RowIds : DataTableGetItem(rowId)
  \/ \E rowId \in RowIds, values \in RowInputs : DataTableSetItem(rowId, values)
  \/ \E d \in Values, values \in PartialInputs : PlotAddValue(d, values)
  \/ \E d \in Values, values \in PartialInputs : PlotSetItem(d, values)
  \/ \E d \in Values : PlotGetItem(d)

Spec == Init /\ [][Next]_vars

\* the registry alone, over every column list and descriptor of the bounds
NextRegistry ==
  \/ \E domId \in DomainIds, columnList \in ColumnLists :
       PlotDescriptionInit(domId, columnList)
  \/ \E domId \in DomainIds, columnList \in MainColumnLists :
       MainPlotDescriptionInit(domId, columnList)
  \/ \E column \in DraftColDescs(draft) : PlotDescriptionAddColumn(column)
  \/ DataTableInit
  \/ PlotInit
  \/ MainPlotInit
  \/ \E colDesc \in ColDescs : DataTableAddColumn(colDesc)

SpecRegistry == Init /\ [][NextRegistry]_vars

\* a table that is filled and serialized, over the registries of
\* SerColumnLists
NextSerialize ==
  \/ \E columnList \in SerColumnLists : PlotDescriptionInit("date", columnList)
  \/ \E columnList \in MainSerColumnLists : MainPlotDescriptionInit("date", columnList)
  \/ DataTableInit
  \/ PlotInit
  \/ MainPlotInit
  \/ \E rowData \in SerRowInputs(domainId, columns) : DataTableAddRow(rowData)
  \/ \E rowData \in SerRowInputs(domainId, columns) : MainAddRow(rowData)
  \/ \E d \in SerDomainValues(domainId, columns),
        values \in SerPartialValues(domainId, columns) : PlotAddValue(d, values)
  \/ \E o \in OptionInputs : SetOptions(o)
  \/ OptionsJSON
  \/ DataTableToGoogleChartArrayStr
  \/ MainPlotToGoogleChartArrayStr

SpecSerialize == Init /\ [][NextSerialize]_vars

\* the descriptor factory alone
NextColumn ==
  \E id \in MakeIds, label \in MakeLabels, type \in MakeTypes, role \in MakeRoles :
    MakePlotColumnDesc(id, label, type, role)

SpecColumn == Init /\ [][NextColumn]_vars

\* the benchmark runner alone: the module as it is after import (args is
\* None, "file" is unbound, nothing runs), then one run
InitRunner == ChartInit /\ draft = "DrawGraphs" /\ RunnerIdle

NextRunner ==
  \/ \E r \in RunArgsInputs, t \in TargetLists :
       \E w \in OldContents(r) : startRun(r, t, w)
  \/ main
  \/ iterateMainList
  \/ executeAllDescriptions
  \/ executeDescription
  \/ runBenchmarkCommand
  \/ executeAllDescriptionsNext
  \/ iterateMainListNext
  \/ iterateMainListEnd

SpecRunner == InitRunner /\ [][NextRunner]_vars

\* =============================================================== claims ===
HasDomain(row) == domainId \in DOMAIN row
KnownKeys(row) == (DOMAIN row) \subseteq ColumnIds(columns)

\* C1: in every state of a Plot, no two rows carry the same domain value,
\* every row's domain value is indexed to that row's position, and every
\* entry of the index points at an existing row with that domain value.
\* (The inherited addRow appends without indexing, and values that carry the
\* domain key rewrite an indexed row's domain value.)
C1_DomainIndexConsistent ==
  IsPlot =>
    /\ \A i, j \in DOMAIN rows :
         (/\ HasDomain(rows[i]) /\ HasDomain(rows[j])
          /\ rows[i][domainId] = rows[j][domainId]) => i = j
    /\ \A i \in DOMAIN rows :
         /\ HasDomain(rows[i])
         /\ IndexGet(xAxisIndex, rows[i][domainId]) = i - 1
    /\ \A k \in DOMAIN xAxisIndex :
         /\ xAxisIndex[k].idx + 1 \in DOMAIN rows
         /\ HasDomain(rows[xAxisIndex[k].idx + 1])
         /\ rows[xAxisIndex[k].idx + 1][domainId] = xAxisIndex[k].key

\* C2: in every state of a DataTable or Plot, every stored row has a value
\* for the domain column and no key that the registry lacks.
\* (DataTable.__setitem__ checks the domain key only.)
C2_RowsWellFormed ==
  IsTable => \A i \in DOMAIN rows : HasDomain(rows[i]) /\ KnownKeys(rows[i])

\* C4: addRow of a row without the domain key fails with MissingDomainValue
\* and leaves the rows as they were, in both drafts.
\* (main.py's raise reads self.domainId and ends in AttributeError.)
C4_AddRowMissingDomain ==
  [][\A rowData \in RowInputs :
       ((DataTableAddRow(rowData) \/ MainAddRow(rowData)) /\ ~HasDomain(rowData))
         => (err' = "MissingDomainValue" /\ rows' = rows)]_vars

\* C8: constructing a registry fails with MissingDomainColumn exactly when no
\* element of the column list has the domain id, in both drafts.
\* (plot.py's raise names an undefined class and ends in NameError.)
C8_CreateMissingDomainColumn ==
  [][\A domId \in DomainIds, columnList \in ColumnLists \cup MainColumnLists :
       (PlotDescriptionInit(domId, columnList) \/ MainPlotDescriptionInit(domId, columnList))
         => IF \E i \in DOMAIN columnList : columnList[i].id = domId
            THEN err' = NoError /\ built'
            ELSE err' = "MissingDomainColumn" /\ ~built']_vars

\* The row the index holds for domain value d
\* the values a step was called with: a call that is carried out records
\* them in args', one that is rejected may have had any values
StepValues == IF err' = NoError THEN {args'.values} ELSE RowInputs

IndexedRow(rws, index, d) == rws[IndexGet(index, d) + 1]
Contains(row, values) == \A k \in DOMAIN values : k \in DOMAIN row /\ row[k] = values[k]

\* C3 as stated: after addValue(d, A) and then addValue(d, B), with disjoint
\* key sets of registered keys, the row indexed for d holds every field of A
\* and of B, d is indexed once and the second call adds no row.
C3_Original ==
  [][(op = "addValue" /\ err = NoError /\ op' = "addValue") =>
     \A d \in {args.d}, B \in StepValues :
       (/\ (DOMAIN args.values) \cap (DOMAIN B) = {}
        /\ (DOMAIN B) \subseteq ColumnIds(columns)
        /\ PlotAddValue(d, B))
       => /\ err' = NoError
          /\ Len(rows') = Len(rows)
          /\ Cardinality({k \in DOMAIN xAxisIndex' : xAxisIndex'[k].key = d}) = 1
          /\ Contains(IndexedRow(rows', xAxisIndex', d), args.values)
          /\ Contains(IndexedRow(rows', xAxisIndex', d), B)]_vars

\* C3 (amended): the same, for A and B that do not carry the domain column
\* id; the row's position in the index is the one the first call left.
C3_Upsert ==
  [][(op = "addValue" /\ err = NoError /\ op' = "addValue") =>
     \A d \in {args.d}, B \in StepValues :
       (/\ (DOMAIN args.values) \cap (DOMAIN B) = {}
        /\ (DOMAIN B) \subseteq ColumnIds(columns)
        /\ domainId \notin (DOMAIN args.values) \cup (DOMAIN B)
        /\ PlotAddValue(d, B))
       => /\ err' = NoError
          /\ Len(rows') = Len(rows)
          /\ Cardinality({k \in DOMAIN xAxisIndex' : xAxisIndex'[k].key = d}) = 1
          /\ IndexGet(xAxisIndex', d) = IndexGet(xAxisIndex, d)
          /\ Contains(IndexedRow(rows', xAxisIndex', d), args.values)
          /\ Contains(IndexedRow(rows', xAxisIndex', d), B)]_vars

\* a second addValue has merged real_time into the one row of the table, which
\* held cpu_time from an earlier call for the same domain value
C3_Witness ==
  /\ IsPlot /\ op = "addValue" /\ err = NoError
  /\ args.values = [real_time |-> 1]
  /\ Len(rows) = 1
  /\ IndexGet(xAxisIndex, args.d) = 0
  /\ rows[1] = [date |-> args.d, cpu_time |-> 1, real_time |-> 1]

\* C5: addRow of a row that has the domain key and a key the registry lacks
\* fails with UnknownColumn and changes neither the rows nor the registry (nor
\* a Plot's index), in both drafts.
C5_AddRowUnknownColumn ==
  [][\A rowData \in {r \in RowInputs : op' = "addRow"} :
       (/\ DataTableAddRow(rowData) \/ MainAddRow(rowData)
        /\ HasDomain(rowData)
        /\ ~KnownKeys(rowData))
       => /\ err' = "UnknownColumn"
          /\ rows' = rows
          /\ columns' = columns /\ domainId' = domainId
          /\ xAxisIndex' = xAxisIndex]_vars

C5_Witness == op = "addRow" /\ err = "UnknownColumn" /\ Len(rows) >= 1

\* C6: a successful addRow returns the row count before the call, grows the
\* rows by the new row at that index and keeps every earlier row; getRow of
\* that index succeeds; on a DataTable a stored row changes only when a
\* successful setRow names its index.
C6_AddRowAppends ==
  [][/\ \A rowData \in {r \in StepValues : op' = "addRow"} :
          (DataTableAddRow(rowData) /\ err' = NoError)
          => /\ ret' = Len(rows)
             /\ Len(rows') = Len(rows) + 1
             /\ rows'[ret' + 1] = rowData
             /\ \A i \in DOMAIN rows : rows'[i] = rows[i]
             /\ DataTableGetItemErr(rows', ret') = NoError
     /\ (draft = "DrawGraphs" /\ cls = "DataTable")
          => \A i \in DOMAIN rows :
               /\ i \in DOMAIN rows'
               /\ \/ rows'[i] = rows[i]
                  \/ op' = "setRow" /\ err' = NoError /\ args'.rowId = i - 1]_vars

\* the second row of a DataTable has just been added and got index 1
C6_Witness ==
  /\ draft = "DrawGraphs" /\ cls = "DataTable"
  /\ op = "addRow" /\ err = NoError /\ ret = 1
  /\ Len(rows) = 2 /\ rows[2] = args.values

\* C7 as stated: getRow(index) and setRow(index, row) fail with
\* RowIndexOutOfRange exactly when index < 0 or index >= rowCount, and a
\* failing call leaves the rows unchanged.
C7_Original ==
  [][/\ \A rowId \in {r \in RowIds : op' = "getRow" /\ r = args'.rowId} :
          DataTableGetItem(rowId)
          => /\ err' = IF rowId < 0 \/ rowId >= Len(rows)
                       THEN "RowIndexOutOfRange" ELSE NoError
             /\ rows' = rows
     /\ \A rowId \in {r \in RowIds : op' = "setRow" /\ r = args'.rowId},
           values \in StepValues :
          DataTableSetItem(rowId, values)
          => /\ err' = IF rowId < 0 \/ rowId >= Len(rows)
                       THEN "RowIndexOutOfRange" ELSE NoError
             /\ err' # NoError => rows' = rows]_vars

\* C7 (amended): that holds of getRow, and of setRow for a row that has the
\* domain key; setRow of a row without the domain key fails with
\* MissingDomainValue at every index.
C7_IndexBounds ==
  [][/\ \A rowId \in {r \in RowIds : op' = "getRow" /\ r = args'.rowId} :
          DataTableGetItem(rowId)
          => /\ err' = IF rowId < 0 \/ rowId >= Len(rows)
                       THEN "RowIndexOutOfRange" ELSE NoError
             /\ rows' = rows
     /\ \A rowId \in {r \in RowIds : op' = "setRow" /\ r = args'.rowId},
           values \in StepValues :
          DataTableSetItem(rowId, values)
          => /\ err' = IF ~HasDomain(values) THEN "MissingDomainValue"
                       ELSE IF rowId < 0 \/ rowId >= Len(rows)
                            THEN "RowIndexOutOfRange" ELSE NoError
             /\ err' # NoError => rows' = rows]_vars

\* getRow(rowCount) on a table that holds rows has just been rejected
C7_Witness ==
  /\ op = "getRow" /\ err = "RowIndexOutOfRange"
  /\ Len(rows) >= 1 /\ args.rowId = Len(rows)

\* C9: once a registry is constructed its domainId is a key of columns and
\* never changes, whatever addColumn calls follow.
C9_DomainStaysRegistered ==
  [][/\ built' => domainId' \in ColumnIds(columns')
     /\ built => built' /\ domainId' = domainId]_vars

\* the domain column itself has been re-added to a registry of several columns
C9_Witness ==
  /\ built /\ op = "PlotDescription.addColumn"
  /\ args.col.id = domainId /\ Len(columns) >= 2

\* C10 as stated: addColumn with a descriptor whose id is registered changes
\* nothing, through the table and through the registry.
C10_Original ==
  [][\A c \in ColDescs \cup MainColDescs :
       (/\ DataTableAddColumn(c) \/ PlotDescriptionAddColumn(c)
        /\ c.id \in ColumnIds(columns))
       => columns' = columns]_vars

\* C10 (amended): through the table it changes nothing; through the registry
\* it keeps the column order and count and stores the new descriptor in the
\* place of the old one.
C10_AddColumnPresent ==
  [][\A c \in ColDescs \cup MainColDescs :
       /\ (DataTableAddColumn(c) /\ c.id \in ColumnIds(columns))
            => columns' = columns
       /\ (PlotDescriptionAddColumn(c) /\ c.id \in ColumnIds(columns))
            => /\ Len(columns') = Len(columns)
               /\ \A i \in DOMAIN columns :
                    /\ columns'[i].id = columns[i].id
                    /\ columns'[i] = IF columns[i].id = c.id THEN c ELSE columns[i]]_vars

\* the table's addColumn was given a descriptor that differs from the one
\* stored under its id, and the stored one is still there
C10_Witness ==
  /\ op = "DataTable.addColumn"
  /\ \E i \in DOMAIN columns :
       columns[i].id = args.col.id /\ columns[i] # args.col

\* C14: addValue with a key outside the registry fails with UnknownColumn,
\* for an unseen and for an indexed domain value, and writes nothing: rows,
\* index and registry stay as they were.
C14_AddValueUnknownColumn ==
  [][op' = "addValue" =>
     \A values \in RowInputs :
       (~KnownKeys(values) /\ PlotAddValue(args'.d, values))
       => /\ err' = "UnknownColumn"
          /\ rows' = rows
          /\ xAxisIndex' = xAxisIndex
          /\ columns' = columns /\ domainId' = domainId]_vars

\* addValue for an indexed domain value has just been rejected
C14_Witness ==
  /\ IsPlot /\ op = "addValue" /\ err = "UnknownColumn"
  /\ args.d \in IndexKeys(xAxisIndex)
  /\ Len(rows) >= 1

\* C17: setRow of a row without the domain key fails at every index and
\* leaves the rows as they were; setRow of a row with the domain key at an
\* index in range replaces that row and no other, and keeps the row count.
C17_SetRowDomainCheck ==
  [][op' = "setRow" =>
     \A rowId \in {args'.rowId}, values \in StepValues :
       DataTableSetItem(rowId, values)
       => /\ ~HasDomain(values)
               => err' = "MissingDomainValue" /\ rows' = rows
          /\ (HasDomain(values) /\ rowId >= 0 /\ rowId < Len(rows))
               => /\ err' = NoError
                  /\ Len(rows') = Len(rows)
                  /\ rows'[rowId + 1] = values
                  /\ \A i \in DOMAIN rows : i # rowId + 1 => rows'[i] = rows[i]]_vars

\* setRow at an index in range has just been rejected for the missing domain
\* key, on a table of two rows
C17_Witness ==
  /\ op = "setRow" /\ err = "MissingDomainValue"
  /\ Len(rows) = 2
  /\ args.rowId >= 0 /\ args.rowId < Len(rows)

\* C18 as stated: set(d, values) for an indexed d makes the indexed row
\* exactly values and changes neither the row count, another row nor the
\* index.
C18_Original ==
  [][(op' = "set" /\ args'.d \in IndexKeys(xAxisIndex)) =>
     \A d \in {args'.d}, values \in StepValues :
       (/\ err' = PlotSetItemErr(domainId, columns, rows, xAxisIndex, d, values)
        /\ PlotSetItem(d, values))
       => /\ Len(rows') = Len(rows)
          /\ rows'[IndexGet(xAxisIndex, d) + 1] = values
          /\ \A i \in DOMAIN rows :
               i # IndexGet(xAxisIndex, d) + 1 => rows'[i] = rows[i]
          /\ xAxisIndex' = xAxisIndex]_vars

\* C18 (amended): that holds when values has the domain key; without it the
\* call fails with MissingDomainValue and changes nothing.
C18_SetReplaces ==
  [][(op' = "set" /\ args'.d \in IndexKeys(xAxisIndex)) =>
     \A d \in {args'.d}, values \in StepValues :
       (/\ err' = PlotSetItemErr(domainId, columns, rows, xAxisIndex, d, values)
        /\ PlotSetItem(d, values))
       => /\ Len(rows') = Len(rows)
          /\ xAxisIndex' = xAxisIndex
          /\ \A i \in DOMAIN rows :
               i # IndexGet(xAxisIndex, d) + 1 => rows'[i] = rows[i]
          /\ IF HasDomain(values)
             THEN err' = NoError /\ rows'[IndexGet(xAxisIndex, d) + 1] = values
             ELSE err' = "MissingDomainValue" /\ rows' = rows]_vars

\* set has just replaced the first of two rows: the row is the values given
C18_Witness ==
  /\ IsPlot /\ op = "set" /\ err = NoError
  /\ Len(rows) = 2
  /\ IndexGet(xAxisIndex, args.d) = 0
  /\ rows[1] = args.values

NoDuplicates(seq) == \A i, j \in DOMAIN seq : seq[i] = seq[j] => i = j
Elements(seq) == {seq[i] : i \in DOMAIN seq}

\* C20: iterating a Plot yields the indexed domain values, each once, in the
\* order in which addValue or set first saw them: a step that indexes a new
\* domain value puts it last, any other step leaves the iteration as it was.
\* (The iteration of a new Plot is empty; a step that leaves the index as it
\* is leaves the iteration as it is.)
C20_IterationOrder ==
  [][xAxisIndex' # xAxisIndex =>
     /\ NoDuplicates(PlotIter(xAxisIndex'))
     /\ Elements(PlotIter(xAxisIndex'))
          = {d \in Values : IndexGet(xAxisIndex', d) # 0 - 1}
     /\ \A d \in Values :
          (IndexGet(xAxisIndex, d) = 0 - 1 /\ IndexGet(xAxisIndex', d) # 0 - 1)
          => /\ PlotIter(xAxisIndex') = Append(PlotIter(xAxisIndex), d)
             /\ op' \in {"addValue", "set"} /\ args'.d = d
     /\ (\A d \in Values :
           IndexGet(xAxisIndex, d) = 0 - 1 => IndexGet(xAxisIndex', d) = 0 - 1)
          => PlotIter(xAxisIndex') = PlotIter(xAxisIndex)]_vars

\* 2 was seen before 1, and addValue has just updated the row of 2: the
\* iteration still starts with 2
C20_Witness ==
  /\ IsPlot /\ op = "addValue" /\ err = NoError
  /\ args.d = 2 /\ args.values = [cpu_time |-> 1]
  /\ PlotIter(xAxisIndex) = <<2, 1>>
  /\ IndexGet(xAxisIndex, 2) = 0 /\ Len(rows) = 2

\* position of the first and of the last element of columnList with this id
FirstOccurrence(columnList, id) ==
  CHOOSE i \in DOMAIN columnList :
    /\ columnList[i].id = id
    /\ \A j \in DOMAIN columnList : columnList[j].id = id => i <= j
LastOccurrence(columnList, id) ==
  CHOOSE i \in DOMAIN columnList :
    /\ columnList[i].id = id
    /\ \A j \in DOMAIN columnList : columnList[j].id = id => j <= i

\* cols holds every id of columnList once, ordered by first occurrence, each
\* with the content of its last occurrence
RegisteredInOrder(columnList, cols) ==
  /\ ColumnIds(cols) = ColumnIds(columnList)
  /\ \A i, j \in DOMAIN cols : cols[i].id = cols[j].id => i = j
  /\ \A i, j \in DOMAIN cols :
       i < j => FirstOccurrence(columnList, cols[i].id)
                  < FirstOccurrence(columnList, cols[j].id)
  /\ \A i \in DOMAIN cols :
       cols[i] = columnList[LastOccurrence(columnList, cols[i].id)]

\* C16: a registry that was constructed holds the columns of columnList in
\* list order, a duplicate id at the place of its first occurrence with the
\* content of its last; addColumn of a new id, on the registry or through the
\* table, appends the column and moves no other.
C16_RegistrationOrder ==
  [][/\ (op' = "PlotDescription" /\ err' = NoError)
          => RegisteredInOrder(args'.columnList, columns')
     /\ \A column \in ColDescs \cup MainColDescs :
          ((\/ PlotDescriptionAddColumn(column)
            \/ DataTableAddColumn(column)) /\ column.id \notin ColumnIds(columns))
          => columns' = Append(columns, column)]_vars

\* a registry has just been constructed from a list whose third element
\* repeats the id of the first with another label: two columns, the first
\* with the label of the third element
C16_Witness ==
  /\ op = "PlotDescription" /\ err = NoError
  /\ Len(args.columnList) = 3
  /\ args.columnList[1].id = args.columnList[3].id
  /\ args.columnList[1] # args.columnList[3]
  /\ args.columnList[2].id # args.columnList[1].id
  /\ columns = <<args.columnList[3], args.columnList[2]>>

\* C15: makePlotColumnDesc fails with InvalidColumnType exactly when the type
\* is none of string, date, datetime, number, boolean, timeofday; for such a
\* type it returns a descriptor of that id and type, labelled with the id
\* when no label was given, with a role only when a non-empty role was given.
\* (The raise ends in TypeError: PlotColumnException is no exception class.)
C15_MakeColumn ==
  op = "makePlotColumnDesc" =>
    /\ err = "InvalidColumnType"
         <=> args.make.type \notin
               {"string", "date", "datetime", "number", "boolean", "timeofday"}
    /\ args.make.type \in
         {"string", "date", "datetime", "number", "boolean", "timeofday"}
       => /\ err = NoError
          /\ out.id = args.make.id
          /\ out.type = args.make.type
          /\ args.make.label = Omitted => out.label = args.make.id
          /\ args.make.label \notin {Omitted, ""} => out.label = args.make.label
          /\ ("role" \in DOMAIN out) <=> args.make.role \notin {Omitted, ""}
          /\ ("role" \in DOMAIN out) => out.role = args.make.role

\* the row has no value for the column: no key, or None under the key
Missing(row, colId) == colId \notin DOMAIN row \/ row[colId] = PyNone

\* the literal of a value of the column's type: a date as year, zero-based
\* month and day, a datetime with hour, minute and second added, a string in
\* double quotes, a number as it is (written with the spacing of the code)
ExpectedLiteral(type, value) ==
  CASE type = "datetime" ->
         "\"Date(" \o Join(", ", <<ToString(value.year), ToString(value.month - 1),
                                   ToString(value.day), ToString(value.hour),
                                   ToString(value.minute), ToString(value.second)>>)
                   \o ")\""
    [] type = "date" ->
         "\"Date(" \o Join(", ", <<ToString(value.year), ToString(value.month - 1),
                                   ToString(value.day)>>)
                   \o ")\""
    [] type = "string" -> "\"" \o value.v \o "\""
    [] type = "number" -> ToString(value.v)

\* one literal for every column of the registry, in its order: null where the
\* row has no value
ExpectedRow(cols, row) ==
  "[" \o Join(",", [j \in DOMAIN cols |->
                      IF Missing(row, cols[j].id) THEN "null"
                      ELSE ExpectedLiteral(cols[j].type, row[cols[j].id])])
      \o "]"

\* the descriptors, then one element for every row, in row order
ExpectedSerialization(cols, rws) ==
  "'[" \o JsonDumpsCols(cols) \o ", "
       \o Join(",", [i \in DOMAIN rws |-> ExpectedRow(cols, rws[i])]) \o "]'"

\* C11: toGoogleChartArrayStr of a DataTable or Plot never fails, whatever
\* rows the table holds, and returns the descriptors in registry order and
\* then one element for every stored row, each with one value for every
\* column of the registry.
\* (row[col] raises KeyError for a row that lacks a key of the registry.)
C11_SerializeNeverFails ==
  (IsTable /\ op = "toGoogleChartArrayStr") =>
    /\ err = NoError
    /\ out = toGoogleChartArrayStr(columns, rows)

\* C12: when a stored row has no value for a column of the registry, no key
\* or None, toGoogleChartArrayStr of a DataTable or Plot writes null at the
\* place of that column and the literals of the row's other columns around it.
\* (None is written as null; a key that is absent raises KeyError.)
C12_MissingRendersNull ==
  (/\ IsTable /\ op = "toGoogleChartArrayStr"
   /\ \E i \in DOMAIN rows, j \in DOMAIN columns : Missing(rows[i], columns[j].id))
  => /\ err = NoError
     /\ out = ExpectedSerialization(columns, rows)

\* C13: when every row has a value for every column, toGoogleChartArrayStr, in
\* either draft, writes a date or datetime with the month one less than the
\* calendar month and the other fields as they are, in the order year, month,
\* day, hour, minute, second.
\* (main.py writes the calendar month, and a date column as str(value).)
C13_MonthZeroBased ==
  (/\ op = "toGoogleChartArrayStr" /\ err = NoError
   /\ rows # <<>>
   /\ \A i \in DOMAIN rows, j \in DOMAIN columns : ~Missing(rows[i], columns[j].id))
  => out = ExpectedSerialization(columns, rows)

\* C19: toGoogleChartArrayStr and optionsJSON change neither the registry, the
\* rows, the options nor the index of a Plot, and a call that follows the
\* same call with nothing in between returns what that call returned.
C19_SerializeReadOnly ==
  [][op' \in {"toGoogleChartArrayStr", "optionsJSON"}
     => /\ domainId' = domainId /\ columns' = columns
        /\ rows' = rows /\ rowObject' = rowObject
        /\ options' = options
        /\ xAxisIndex' = xAxisIndex
        /\ cls' = cls
        /\ op = op' => (err' = err /\ out' = out)]_vars

\* a Plot with two indexed rows and options has just been serialized
C19_Witness ==
  /\ IsPlot /\ op = "toGoogleChartArrayStr" /\ err = NoError
  /\ out = ExpectedSerialization(columns, rows)
  /\ Len(rows) = 2 /\ Len(xAxisIndex) = 2
  /\ options # <<>>

\* C21: a run of the runner in json format with an output file (the script,
\* or iterateMainList called with args bound), whatever the target list
\* holds, leaves a file that has "[" first and "]" last and in which every
\* "," stands between two benchmark outputs: none directly after "[", none
\* directly before "]", no two in a row.
\* (The script's run ends in NameError in main() and leaves the file empty.
\* iterateMainList called with "file" bound writes a "," after a description
\* or target that ran a benchmark whenever another follows, also when none
\* of those that follow runs one.)
C21_CommaOnlyBetweenOutputs ==
  (/\ runArgs.args = "parsed" /\ runArgs.format = "json" /\ runArgs.outPath
   /\ pc = "done")
  => /\ written # <<>>
     /\ written[1] = "["
     /\ written[Len(written)] = "]"
     /\ \A i \in DOMAIN written :
          written[i] = ","
          => /\ i > 1 /\ written[i - 1] \notin {"[", ","}
             /\ i < Len(written) /\ written[i + 1] \notin {"]", ","}

====
